---------------------------- MODULE Spec2Model ----------------------------
(* A model of the pixel-renderer's RenderContext (src/src/render.rs), the  *)
(* per-tick App::update (src/src/app.rs) and the drawing callback of the   *)
(* minimal example (src/examples/minimal.rs).                              *)
(*                                                                         *)
(* RenderContext is one record, rc, holding the fields of the struct.  The *)
(* window, the surface and the adapter are the environment: the window's   *)
(* physical size, the configuration last applied to the surface, and the   *)
(* adapter's capability lists.  render() is a sequence of steps, with pc   *)
(* the position inside the call; every other operation takes &mut self and *)
(* so runs only between two render calls (pc = "Idle").                    *)
EXTENDS Integers, Sequences, FiniteSets, TLC

VARIABLES
    rc,         \* the RenderContext's fields
    window,     \* the window's physical size (window.inner_size())
    surface,    \* the configuration last applied by surface.configure
    caps,       \* surface.get_capabilities(adapter)
    pc,         \* position inside render(), "Idle" between calls
    op,         \* the operation that ran last
    calls,      \* the API calls the last operation issued, in order
    output,     \* what surface.get_current_texture returned in this frame
    pass,       \* the draw commands recorded in this frame's render pass
    ret,        \* the value the last operation returned
    requested   \* the present mode asked for by the most recent switch

vars == <<rc, window, surface, caps, pc, op, calls, output, pass, ret, requested>>

---------------------------------------------------------------------------
(* Bounds of the model.                                                    *)

\* Canvas, texture and window dimensions range over 0..MaxDim.
MaxDim == 2
\* The adapter reports at most MaxFormats surface formats.
MaxFormats == 3
\* The example's block offset (px, py) = (75, 75), scaled to the model.
BlockOffset == 1
\* The example's block extent (wx, wy) = (100, 100), scaled to the model.
BlockSize == 1

\* DEFAULT_CANVAS_WIDTH and DEFAULT_CANVAS_HEIGHT are imported from the
\* canvas module; the model uses the smallest canvas.
DEFAULT_CANVAS_WIDTH == 1
DEFAULT_CANVAS_HEIGHT == 1

---------------------------------------------------------------------------
(* Values.                                                                 *)

Size(w, h) == [width |-> w, height |-> h]

\* winit::dpi::PhysicalSize<u32>: a minimized window reports a zero size.
PhysicalSizes == [width : 0..MaxDim, height : 0..MaxDim]

Positive(size) == size.width > 0 /\ size.height > 0

CanvasDims == 1..MaxDim

\* wgpu::PresentMode
PresentModes == {"AutoVsync", "Immediate"}

\* wgpu::SurfaceError
SurfaceError == {"Timeout", "Outdated", "Lost", "OutOfMemory"}

\* wgpu::TextureFormat, the surface formats of the model
TextureFormats == {"Bgra8Unorm", "Bgra8UnormSrgb", "Rgba8Unorm", "Rgba8UnormSrgb"}

\* f.describe().srgb
srgb(f) == f \in {"Bgra8UnormSrgb", "Rgba8UnormSrgb"}

Unit == [tag |-> "Unit", err |-> "-", flag |-> FALSE]
Pending == [tag |-> "Pending", err |-> "-", flag |-> FALSE]
Ok == [tag |-> "Ok", err |-> "-", flag |-> FALSE]
Err(e) == [tag |-> "Err", err |-> e, flag |-> FALSE]
Bool(b) == [tag |-> "Bool", err |-> "-", flag |-> b]

\* The quad: four vertices (position, uv) and two triangles.
VERTICES ==
    << [position |-> <<-1, -1, 0>>, uv |-> <<0, 1>>],
       [position |-> << 1, -1, 0>>, uv |-> <<1, 1>>],
       [position |-> <<-1,  1, 0>>, uv |-> <<0, 0>>],
       [position |-> << 1,  1, 0>>, uv |-> <<1, 0>>] >>

INDICES == <<0, 1, 2, 3, 2, 1>>

---------------------------------------------------------------------------
(* The canvas: width * height RGBA8 pixels, row-major, as bytes.           *)

Zeroed(n) == [i \in 1..n |-> 0]

Canvas_new(width, height) ==
    [width |-> width, height |-> height, pixels |-> Zeroed(width * height * 4)]

Canvas_resize(canvas, width, height) == Canvas_new(width, height)

clear_screen(canvas) == [canvas EXCEPT !.pixels = Zeroed(Len(canvas.pixels))]

\* Writes r, g, b and an opaque alpha; a pixel outside the canvas is dropped.
write_pixel_rgb(canvas, x, y, rgb) ==
    IF x < canvas.width /\ y < canvas.height
    THEN LET i == (y * canvas.width + x) * 4
         IN  [canvas EXCEPT !.pixels[i + 1] = rgb[1],
                            !.pixels[i + 2] = rgb[2],
                            !.pixels[i + 3] = rgb[3],
                            !.pixels[i + 4] = 255]
    ELSE canvas

read_pixel(canvas, x, y) ==
    IF x < canvas.width /\ y < canvas.height
    THEN LET i == (y * canvas.width + x) * 4
         IN  <<canvas.pixels[i + 1], canvas.pixels[i + 2],
               canvas.pixels[i + 3], canvas.pixels[i + 4]>>
    ELSE <<>>

\* Game::update of the minimal example: clear, then the cyan block, row by
\* row; k counts the pixels already written.
RECURSIVE WriteBlock(_, _)
WriteBlock(canvas, k) ==
    IF k = BlockSize * BlockSize
    THEN canvas
    ELSE LET x == k % BlockSize
             y == k \div BlockSize
         IN  WriteBlock(write_pixel_rgb(canvas, x + BlockOffset, y + BlockOffset,
                                        <<0, 255, 255>>), k + 1)

Game_update(canvas) == WriteBlock(clear_screen(canvas), 0)

---------------------------------------------------------------------------
(* create_surface_config and create_pipeline.                              *)

find_srgb_last(formats, i) ==
    LET hits == {j \in i..Len(formats) : srgb(formats[j])}
    IN  IF hits = {} THEN "None"
        ELSE formats[CHOOSE j \in hits : \A k \in hits : k <= j]

\* formats.iter().copied().find(|f| f.describe().srgb): the first match.
RECURSIVE find_srgb(_, _)
find_srgb(formats, i) ==
    IF i > Len(formats) THEN "None"
    ELSE IF srgb(formats[i]) THEN formats[i]
    ELSE find_srgb(formats, i + 1)

create_surface_config(size, surface_caps, present_mode) ==
    LET found == find_srgb(surface_caps.formats, 1)
        surface_format == IF found = "None" THEN surface_caps.formats[1] ELSE found
    IN  [usage |-> "RENDER_ATTACHMENT",
         format |-> surface_format,
         width |-> size.width,
         height |-> size.height,
         present_mode |-> present_mode,
         alpha_mode |-> surface_caps.alpha_modes[1],
         view_formats |-> <<>>]

\* The texture (zero-initialised), its bind group and the pipeline, whose
\* colour target has the surface's format.
create_pipeline(surface_config, width, height) ==
    [render_pipeline |-> [target |-> surface_config.format],
     texture |-> [width |-> width, height |-> height,
                  data |-> Zeroed(width * height * 4)],
     diffuse_bind_group |-> [texture |-> Size(width, height), filter |-> "Nearest"]]

---------------------------------------------------------------------------
(* RenderContext.                                                          *)

new(size, surface_caps) ==
    LET surface_config == create_surface_config(size, surface_caps, "AutoVsync")
        p == create_pipeline(surface_config, DEFAULT_CANVAS_WIDTH, DEFAULT_CANVAS_HEIGHT)
    IN  [canvas |-> Canvas_new(DEFAULT_CANVAS_WIDTH, DEFAULT_CANVAS_HEIGHT),
         surface_config |-> surface_config,
         window_size |-> size,
         render_pipeline |-> p.render_pipeline,
         vertex_buffer |-> VERTICES,
         index_buffer |-> INDICES,
         num_indices |-> Len(INDICES),
         diffuse_bind_group |-> p.diffuse_bind_group,
         texture |-> p.texture]

\* Each operation maps the context and the surface's applied configuration
\* to their new values and the surface calls it made.
Outcome(r, s, c) == [rc |-> r, surface |-> s, calls |-> c]

resize_canvas_texture(r, s, width, height) ==
    LET p == create_pipeline(r.surface_config, width, height)
    IN  Outcome([r EXCEPT !.render_pipeline = p.render_pipeline,
                          !.texture = p.texture,
                          !.diffuse_bind_group = p.diffuse_bind_group],
                s, <<"create_pipeline">>)

reconfigure_present_mode_stale(r, s, present_mode) ==
    Outcome([r EXCEPT !.surface_config.present_mode = present_mode], s, <<>>)

reconfigure_present_mode(r, s, present_mode) ==
    LET cfg == [r.surface_config EXCEPT !.present_mode = present_mode]
    IN  Outcome([r EXCEPT !.surface_config = cfg], cfg, <<"surface.configure">>)

resize_window_either(r, s, new_size) ==
    IF new_size.width > 0 \/ new_size.height > 0
    THEN LET cfg == [r.surface_config EXCEPT !.width = new_size.width,
                                             !.height = new_size.height]
         IN  Outcome([r EXCEPT !.window_size = new_size, !.surface_config = cfg],
                     cfg, <<"surface.configure">>)
    ELSE Outcome(r, s, <<>>)

resize_window_width_only(r, s, new_size) ==
    IF new_size.width > 0 /\ new_size.height > 0
    THEN LET cfg == [r.surface_config EXCEPT !.width = new_size.width]
         IN  Outcome([r EXCEPT !.window_size = new_size, !.surface_config = cfg],
                     cfg, <<"surface.configure">>)
    ELSE Outcome(r, s, <<>>)

resize_window(r, s, new_size) ==
    IF new_size.width > 0 /\ new_size.height > 0
    THEN LET cfg == [r.surface_config EXCEPT !.width = new_size.width,
                                             !.height = new_size.height]
         IN  Outcome([r EXCEPT !.window_size = new_size, !.surface_config = cfg],
                     cfg, <<"surface.configure">>)
    ELSE Outcome(r, s, <<>>)

\* canvas::resize: the canvas is reallocated, then the texture is rebuilt
\* for the same size.
canvas_resize(r, s, width, height) ==
    resize_canvas_texture([r EXCEPT !.canvas = Canvas_resize(r.canvas, width, height)],
                          s, width, height)

---------------------------------------------------------------------------
(* render(), step by step.                                                 *)

\* queue.write_texture: the copy covers texture.size(); texel byte k of
\* (x, y) is read at y * bytes_per_row + 4 * x + k of the canvas's bytes,
\* with bytes_per_row = 4 * canvas.width.  -1 marks a byte past the end of
\* the canvas's buffer.
Uploaded(canvas, texture) ==
    LET bytes_per_row == 4 * canvas.width
    IN  [i \in 1..(texture.width * texture.height * 4) |->
            LET t == (i - 1) \div 4
                k == (i - 1) % 4
                x == t % texture.width
                y == t \div texture.width
                src == y * bytes_per_row + 4 * x + k + 1
            IN  IF src <= Len(canvas.pixels) THEN canvas.pixels[src] ELSE -1]

write_texture_consuming(r) ==
    [r EXCEPT !.texture.data = Uploaded(r.canvas, r.texture),
              !.canvas = clear_screen(r.canvas)]

write_texture(r) == [r EXCEPT !.texture.data = Uploaded(r.canvas, r.texture)]

\* let output = self.surface.get_current_texture()?;
question_mark_absorbing(result) ==
    IF result = "Ok"
    THEN [pc |-> "FrameAcquired", ret |-> Pending]
    ELSE [pc |-> "Skipped", ret |-> Ok]

question_mark_ignoring(result) == [pc |-> "FrameAcquired", ret |-> Pending]

question_mark(result) ==
    IF result = "Ok"
    THEN [pc |-> "FrameAcquired", ret |-> Pending]
    ELSE [pc |-> "Skipped", ret |-> Err(result)]

\* render_pass.draw_indexed(0..self.num_indices, 0, 0..1)
draw_indexed_vertices(r) ==
    [indices |-> [start |-> 0, end |-> Len(r.vertex_buffer)],
     base_vertex |-> 0,
     instances |-> [start |-> 0, end |-> 1]]

draw_indexed(r) ==
    [indices |-> [start |-> 0, end |-> r.num_indices],
     base_vertex |-> 0,
     instances |-> [start |-> 0, end |-> 1]]

AcquireCalls == <<"surface.get_current_texture">>

PassCalls ==
    <<"texture.create_view", "device.create_command_encoder",
      "encoder.begin_render_pass", "render_pass.set_pipeline",
      "render_pass.set_bind_group", "render_pass.set_vertex_buffer",
      "render_pass.set_index_buffer", "render_pass.draw_indexed">>

SubmitCalls == <<"encoder.finish", "queue.submit", "output.present">>

---------------------------------------------------------------------------
(* App::update.                                                            *)

\* The callback's answer is logged with the call.
Callback(should_exit) ==
    IF should_exit THEN "callbacks.update -> true" ELSE "callbacks.update -> false"

update_always_saving(should_exit) ==
    [calls |-> <<"time.update_time", Callback(should_exit), "keyboard.save_keys">>,
     ret |-> Bool(should_exit)]

update(should_exit) ==
    IF should_exit
    THEN [calls |-> <<"time.update_time", Callback(should_exit)>>, ret |-> Bool(TRUE)]
    ELSE [calls |-> <<"time.update_time", Callback(should_exit), "keyboard.save_keys">>,
          ret |-> Bool(FALSE)]

---------------------------------------------------------------------------
(* The state machine.                                                      *)

\* The capability lists of two adapters: one that offers an sRGB format
\* after a linear one, one that offers none.
AdapterCaps ==
    { [formats |-> <<"Bgra8Unorm", "Bgra8UnormSrgb">>, alpha_modes |-> <<"Opaque">>],
      [formats |-> <<"Rgba8Unorm">>, alpha_modes |-> <<"Opaque">>] }

Init ==
    /\ caps \in AdapterCaps
    /\ window \in {size \in PhysicalSizes : Positive(size)}
    /\ rc = new(window, caps)
    /\ surface = rc.surface_config
    /\ pc = "Idle"
    /\ op = "new"
    /\ calls = <<"surface.configure", "create_pipeline">>
    /\ output = "None"
    /\ pass = <<>>
    /\ ret = Unit
    /\ requested = "AutoVsync"

Apply(name, outcome) ==
    /\ rc' = outcome.rc
    /\ surface' = outcome.surface
    /\ calls' = outcome.calls
    /\ op' = name
    /\ ret' = Unit

\* The window reports a new physical size and the event is forwarded to
\* resize_window.
WindowResized ==
    /\ pc = "Idle"
    /\ \E new_size \in PhysicalSizes :
          /\ window' = new_size
          /\ Apply("resize_window", resize_window(rc, surface, new_size))
    /\ UNCHANGED <<caps, pc, output, pass, requested>>

ReconfigurePresentMode ==
    /\ pc = "Idle"
    /\ \E present_mode \in PresentModes :
          /\ requested' = present_mode
          /\ Apply("reconfigure_present_mode",
                   reconfigure_present_mode(rc, surface, present_mode))
    /\ UNCHANGED <<window, caps, pc, output, pass>>

ResizeCanvasTexture ==
    /\ pc = "Idle"
    /\ \E width \in CanvasDims, height \in CanvasDims :
          Apply("resize_canvas_texture", resize_canvas_texture(rc, surface, width, height))
    /\ UNCHANGED <<window, caps, pc, output, pass, requested>>

CanvasResize ==
    /\ pc = "Idle"
    /\ \E width \in CanvasDims, height \in CanvasDims :
          Apply("canvas_resize", canvas_resize(rc, surface, width, height))
    /\ UNCHANGED <<window, caps, pc, output, pass, requested>>

\* One tick of the application: the callback draws the example's frame and
\* answers whether to exit.
AppUpdate ==
    /\ pc = "Idle"
    /\ \E should_exit \in BOOLEAN :
          LET u == update(should_exit)
          IN  /\ calls' = u.calls
              /\ ret' = u.ret
    /\ rc' = [rc EXCEPT !.canvas = Game_update(rc.canvas)]
    /\ op' = "update"
    /\ UNCHANGED <<window, surface, caps, pc, output, pass, requested>>

RenderWriteTexture ==
    /\ pc = "Idle"
    /\ rc' = write_texture(rc)
    /\ pc' = "TextureWritten"
    /\ op' = "render"
    /\ calls' = <<"queue.write_texture">>
    /\ output' = "None"
    /\ pass' = <<>>
    /\ ret' = Pending
    /\ UNCHANGED <<window, surface, caps, requested>>

RenderAcquire ==
    /\ pc = "TextureWritten"
    /\ \E result \in {"Ok"} \cup SurfaceError :
          LET q == question_mark(result)
          IN  /\ output' = result
              /\ pc' = q.pc
              /\ ret' = q.ret
    /\ calls' = calls \o AcquireCalls
    /\ UNCHANGED <<rc, window, surface, caps, op, pass, requested>>

RenderDraw ==
    /\ pc = "FrameAcquired"
    /\ pass' = Append(pass, draw_indexed(rc))
    /\ calls' = calls \o PassCalls
    /\ pc' = "Drawn"
    /\ UNCHANGED <<rc, window, surface, caps, op, output, ret, requested>>

RenderSubmitPresent ==
    /\ pc = "Drawn"
    /\ calls' = calls \o SubmitCalls
    /\ ret' = Ok
    /\ pc' = "Presented"
    /\ UNCHANGED <<rc, window, surface, caps, op, output, pass, requested>>

\* render() returns: the surface texture and the encoder, locals of the
\* call, are dropped, and the next call starts a new frame.
RenderReturn ==
    /\ pc \in {"Presented", "Skipped"}
    /\ pc' = "Idle"
    /\ output' = "None"
    /\ pass' = <<>>
    /\ UNCHANGED <<rc, window, surface, caps, op, calls, ret, requested>>

Next ==
    \/ WindowResized
    \/ ReconfigurePresentMode
    \/ ResizeCanvasTexture
    \/ CanvasResize
    \/ AppUpdate
    \/ RenderWriteTexture
    \/ RenderAcquire
    \/ RenderDraw
    \/ RenderSubmitPresent
    \/ RenderReturn

Spec == Init /\ [][Next]_vars

---------------------------------------------------------------------------
(* Construction alone, over every capability list the adapter may report:  *)
(* the specification under which create_surface_config's choice of format  *)
(* is checked.                                                             *)

\* The non-empty lists of at most n formats.
RECURSIVE FormatLists(_)
FormatLists(n) ==
    IF n = 0 THEN {}
    ELSE FormatLists(n - 1) \cup [1..n -> TextureFormats]

\* The context before RenderContext::new has run.
NoContext == [surface_config |-> [format |-> "None"]]

InitCfg ==
    /\ caps \in [formats : FormatLists(MaxFormats), alpha_modes : {<<"Opaque">>}]
    /\ window \in {size \in PhysicalSizes : Positive(size)}
    /\ rc = NoContext
    /\ surface = NoContext.surface_config
    /\ pc = "Start"
    /\ op = "none"
    /\ calls = <<>>
    /\ output = "None"
    /\ pass = <<>>
    /\ ret = Unit
    /\ requested = "AutoVsync"

Construct ==
    /\ pc = "Start"
    /\ rc' = new(window, caps)
    /\ surface' = rc'.surface_config
    /\ pc' = "Idle"
    /\ op' = "new"
    /\ calls' = <<"surface.configure", "create_pipeline">>
    /\ UNCHANGED <<window, caps, output, pass, ret, requested>>

NextCfg == Construct

SpecCfg == InitCfg /\ [][NextCfg]_vars

---------------------------------------------------------------------------
(* Helpers of the properties.                                              *)

Count(seq, x) == Cardinality({i \in 1..Len(seq) : seq[i] = x})

\* Every x of seq comes before every y of seq.
Before(seq, x, y) ==
    \A i, j \in 1..Len(seq) : (seq[i] = x /\ seq[j] = y) => i < j

Dims(r) == <<r.width, r.height>>

InRender == pc \in {"TextureWritten", "FrameAcquired", "Drawn", "Presented", "Skipped"}

\* The surface errors after which the surface is to be reconfigured.
Recoverable == {"Outdated", "Lost"}

---------------------------------------------------------------------------
(* Properties.                                                             *)

\* C1: at the start of every render() call the texture's (width, height)
\* equals the canvas's (width, height), whatever operations came before.
C1_TextureMatchesCanvas ==
    pc = "TextureWritten" => Dims(rc.texture) = Dims(rc.canvas)

C3_ZeroSizeIsNoOp ==
    [][ (op' = "resize_window" /\ (window'.width = 0 \/ window'.height = 0))
        => /\ rc'.surface_config = rc.surface_config
           /\ rc'.window_size = rc.window_size
           /\ rc' = rc
           /\ surface' = surface
           /\ calls' = <<>> ]_vars

C3_Witness ==
    /\ op = "resize_window"
    /\ window.width = 0
    /\ window.height > 0
    /\ calls = <<>>
    /\ Positive(rc.window_size)
    /\ Dims(rc.surface_config) = Dims(rc.window_size)

\* C4, as stated: in every reachable state the surface configuration's
\* (width, height) equals the window's current physical size and the
\* window_size field.
C4_SurfaceMatchesWindow ==
    /\ Dims(rc.surface_config) = Dims(window)
    /\ Dims(rc.surface_config) = Dims(rc.window_size)

\* C4, amended: in every reachable state the surface configuration's
\* (width, height) equals the window_size field, is positive, is what the
\* surface was last configured with, and equals the window's current
\* physical size whenever that size has no zero dimension.
C4_SurfaceMatchesWindowSize ==
    /\ Dims(rc.surface_config) = Dims(rc.window_size)
    /\ Positive(rc.surface_config)
    /\ Dims(surface) = Dims(rc.surface_config)
    /\ Positive(window) => Dims(rc.surface_config) = Dims(window)

C4_Witness ==
    /\ op = "resize_window"
    /\ calls = <<"surface.configure">>
    /\ window.width # window.height
    /\ Positive(window)
    /\ Dims(rc.surface_config) = Dims(window)

\* C5: a present-mode switch has no error outcome and changes only the
\* present_mode of the surface configuration (width, height, format and the
\* rest stay), and every render() runs with the surface configured to the
\* present mode of the most recent switch.
C5_PresentModeSwitch ==
    /\ [](InRender => /\ surface.present_mode = requested
                      /\ surface = rc.surface_config)
    /\ [][ op' = "reconfigure_present_mode"
           => /\ rc'.surface_config.present_mode = requested'
              /\ rc'.surface_config.width = rc.surface_config.width
              /\ rc'.surface_config.height = rc.surface_config.height
              /\ rc'.surface_config.format = rc.surface_config.format
              /\ rc' = [rc EXCEPT !.surface_config.present_mode = requested']
              /\ surface' = rc'.surface_config
              /\ pc' = "Idle"
              /\ ret' = Unit ]_vars

C5_Witness ==
    /\ pc = "FrameAcquired"
    /\ requested = "Immediate"
    /\ surface.present_mode = "Immediate"
    /\ rc.surface_config.present_mode = "Immediate"

\* C6: a frame goes Idle -> TextureWritten -> FrameAcquired -> Drawn ->
\* Presented, or ends Skipped right after a failed acquisition; the upload
\* precedes the acquisition, the draw precedes the submission, the
\* submission precedes the present; a skipped frame records no render pass,
\* submits nothing and presents nothing.
FrameSteps ==
    { <<"Idle", "TextureWritten">>, <<"TextureWritten", "FrameAcquired">>,
      <<"TextureWritten", "Skipped">>, <<"FrameAcquired", "Drawn">>,
      <<"Drawn", "Presented">>, <<"Presented", "Idle">>, <<"Skipped", "Idle">> }

C6_FrameOrder ==
    /\ [][pc' # pc => <<pc, pc'>> \in FrameSteps]_vars
    /\ [](op = "render" =>
            /\ Before(calls, "queue.write_texture", "surface.get_current_texture")
            /\ Before(calls, "surface.get_current_texture", "encoder.begin_render_pass")
            /\ Before(calls, "render_pass.draw_indexed", "queue.submit")
            /\ Before(calls, "queue.submit", "output.present")
            /\ Count(calls, "queue.write_texture") = 1)
    /\ [](pc \in {"FrameAcquired", "Drawn", "Presented"} => output = "Ok")
    /\ [](pc = "Presented" =>
            /\ Count(calls, "surface.get_current_texture") = 1
            /\ Count(calls, "render_pass.draw_indexed") = 1
            /\ Count(calls, "queue.submit") = 1
            /\ Count(calls, "output.present") = 1)
    /\ [](pc = "Skipped" =>
            /\ output \in SurfaceError
            /\ pass = <<>>
            /\ Count(calls, "encoder.begin_render_pass") = 0
            /\ Count(calls, "queue.submit") = 0
            /\ Count(calls, "output.present") = 0)

C6_Witness ==
    /\ pc = "Presented"
    /\ output = "Ok"
    /\ Len(calls) = 13
    /\ calls[1] = "queue.write_texture"
    /\ calls[13] = "output.present"

\* C7: render() only reads the canvas: no step of it changes the canvas's
\* width, height or pixel bytes, so every pixel reads after the call as it
\* did before; and in the example, after the callback has drawn its frame,
\* a pixel inside the block reads cyan and opaque and a pixel outside it
\* reads the clear value.
InBlock(x, y) ==
    /\ BlockOffset <= x /\ x < BlockOffset + BlockSize
    /\ BlockOffset <= y /\ y < BlockOffset + BlockSize

ExampleFrame(canvas) ==
    \A x \in 0..(canvas.width - 1), y \in 0..(canvas.height - 1) :
        read_pixel(canvas, x, y) =
            IF InBlock(x, y) THEN <<0, 255, 255, 255>> ELSE <<0, 0, 0, 0>>

C7_RenderOnlyReadsCanvas ==
    /\ [][ op' = "render"
           => /\ rc'.canvas = rc.canvas
              /\ \A x, y \in 0..MaxDim :
                    read_pixel(rc'.canvas, x, y) = read_pixel(rc.canvas, x, y)
              /\ (ExampleFrame(rc.canvas) => ExampleFrame(rc'.canvas)) ]_vars
    /\ [](op = "update" => ExampleFrame(rc.canvas))

C7_Witness ==
    /\ pc = "Presented"
    /\ rc.canvas.width > BlockOffset
    /\ rc.canvas.height > BlockOffset
    /\ ExampleFrame(rc.canvas)
    /\ read_pixel(rc.canvas, BlockOffset, BlockOffset) = <<0, 255, 255, 255>>
    /\ read_pixel(rc.canvas, 0, 0) = <<0, 0, 0, 0>>

\* C8: the quad's geometry never changes (four vertices, the six indices,
\* num_indices = 6), and a frame that reaches the draw step records exactly
\* one indexed draw, of indices 0..6 and one instance.
C8_OneDrawOfSixIndices ==
    /\ rc.num_indices = 6
    /\ rc.index_buffer = <<0, 1, 2, 3, 2, 1>>
    /\ Len(rc.vertex_buffer) = 4
    /\ pc \in {"Drawn", "Presented"} =>
          /\ Len(pass) = 1
          /\ pass[1].indices = [start |-> 0, end |-> 6]
          /\ pass[1].base_vertex = 0
          /\ pass[1].instances = [start |-> 0, end |-> 1]
          /\ Count(calls, "render_pass.draw_indexed") = 1
    /\ pc \in {"Idle", "TextureWritten", "FrameAcquired", "Skipped"} => pass = <<>>

C8_Witness ==
    /\ pc = "Drawn"
    /\ Len(pass) = 1
    /\ Dims(rc.texture) # <<DEFAULT_CANVAS_WIDTH, DEFAULT_CANVAS_HEIGHT>>
    /\ Dims(rc.window_size) # Dims(rc.texture)
    /\ rc.surface_config.present_mode = "Immediate"

\* C9: the configured format is the first sRGB-capable format of the
\* adapter's list, or the list's first format when none is sRGB-capable; it
\* is always a member of the list.
C9_FirstSrgbFormat ==
    pc = "Idle" =>
        LET formats == caps.formats
            f == rc.surface_config.format
            hits == {i \in 1..Len(formats) : srgb(formats[i])}
        IN  /\ \E i \in 1..Len(formats) : formats[i] = f
            /\ hits # {} => \E i \in hits : /\ formats[i] = f
                                            /\ \A j \in hits : i <= j
            /\ hits = {} => f = formats[1]

C9_Witness ==
    /\ pc = "Idle"
    /\ Len(caps.formats) = 3
    /\ ~srgb(caps.formats[1])
    /\ srgb(caps.formats[2])
    /\ srgb(caps.formats[3])
    /\ caps.formats[2] # caps.formats[3]
    /\ rc.surface_config.format = caps.formats[2]

\* C10: a tick updates the frame time, then calls the callback exactly
\* once, and returns the callback's answer; the keyboard state is saved,
\* after the callback, exactly on the ticks whose callback answered false.
C10_UpdateTick ==
    op = "update" =>
        LET exits == Count(calls, "callbacks.update -> true")
            stays == Count(calls, "callbacks.update -> false")
        IN  /\ exits + stays = 1
            /\ calls[1] = "time.update_time"
            /\ Count(calls, "time.update_time") = 1
            /\ calls[2] \in {"callbacks.update -> true", "callbacks.update -> false"}
            /\ ret = Bool(exits = 1)
            /\ exits = 1 => Count(calls, "keyboard.save_keys") = 0
            /\ stays = 1 => /\ Count(calls, "keyboard.save_keys") = 1
                            /\ calls[3] = "keyboard.save_keys"

C10_Witness ==
    /\ op = "update"
    /\ ret = Bool(TRUE)
    /\ calls = <<"time.update_time", "callbacks.update -> true">>

=============================================================================
